---------------------------- MODULE Spec2Model ----------------------------
(***************************************************************************)
(* The needless-lifetimes lint pass of src/lifetimes.rs.                   *)
(*                                                                         *)
(* One run of LifetimePass::check_fn on one function definition: the macro *)
(* filter, the extraction of the lifetimes of the receiver, the parameter  *)
(* types and the return type into the two RefVisitor vectors, the elision  *)
(* rules of could_use_elision, and the span_lint call.                     *)
(***************************************************************************)
EXTENDS Naturals, Sequences, FiniteSets

VARIABLES
    pc,               \* position inside check_fn / could_use_elision
    external_macro,   \* in_external_macro(cx, span)
    span,             \* the span check_fn is given
    kind,             \* the FnKind check_fn is given
    inputs,           \* func.inputs: the argument types, "self" argument included
    output,           \* func.output
    arg_idx,          \* position of the `for arg in &func.inputs` loop
    input_visitor,    \* input_visitor.0, later input_lts
    output_visitor,   \* output_visitor.0, later output_lts
    verdict,          \* <<>> until could_use_elision returns, then <<its result>>
    lints             \* the span_lint calls made so far

vars == <<pc, external_macro, span, kind, inputs, output, arg_idx,
          input_visitor, output_visitor, verdict, lints>>

---------------------------------------------------------------------------
(* Bounds of the model. *)

\* ordinary parameters of a signature in Spec
MaxArgs == 2
\* references among the parameters of a signature in SpecDecide
MaxInRefs == 3
\* references in the return type of a signature in SpecDecide
MaxOutRefs == 2
\* nesting depth of the return type in SpecWalk
MaxDepth == 2

\* lifetime names a signature may use besides 'static
Names == {"'a", "'b"}
Lifetimes == Names \cup {"'static"}
\* an Option<Lifetime>: <<>> is None, <<lt>> is Some(lt)
OptLifetimes == {<<>>} \cup {<<lt>> : lt \in Lifetimes}
Spans == {"sp1", "sp2"}

SeqsUpTo(S, n) == UNION {[1..k -> S] : k \in 0..n}

---------------------------------------------------------------------------
(* enum RefLt *)

Unnamed == [tag |-> "Unnamed", name |-> ""]
Static == [tag |-> "Static", name |-> ""]
Named(n) == [tag |-> "Named", name |-> n]

---------------------------------------------------------------------------
(* Type expressions (syntax::ast::Ty_), the shapes the visitor meets:      *)
(*   TyInfer                     the type of the "self" argument           *)
(*   TyPath      tys, lts        a path with its type and lifetime         *)
(*                               parameters, i32 being the bare path       *)
(*   TyRptr      lt, tys[1]      a reference with its optional lifetime    *)
(*   TyTup       tys             a tuple                                   *)
(*   TyObjectSum tys[1], lts     a type with lifetime bounds (T + 'a)      *)

Ty(node, lt, lts, tys) == [node |-> node, lt |-> lt, lts |-> lts, tys |-> tys]
TyInfer == Ty("TyInfer", <<>>, <<>>, <<>>)
TyPath(tys, lts) == Ty("TyPath", <<>>, lts, tys)
TyRptr(lt, ty) == Ty("TyRptr", lt, <<>>, <<ty>>)
TyTup(tys) == Ty("TyTup", <<>>, <<>>, tys)
TyObjectSum(ty, bounds) == Ty("TyObjectSum", <<>>, bounds, <<ty>>)
i32 == TyPath(<<>>, <<>>)

---------------------------------------------------------------------------
(* impl RefVisitor *)

\* record without the 'static case
record_no_static(v, lifetime) ==
    IF lifetime # <<>>
    THEN Append(v, Named(lifetime[1]))
    ELSE Append(v, Unnamed)

record(v, lifetime) ==
    IF lifetime # <<>>
    THEN IF lifetime[1] = "'static"
         THEN Append(v, Static)
         ELSE Append(v, Named(lifetime[1]))
    ELSE Append(v, Unnamed)

into_vec(v) == v

(* impl Visitor for RefVisitor *)

visit_opt_lifetime_ref(v, lifetime) == record(v, lifetime)

visit_lifetime_ref(v, lifetime) == record(v, <<lifetime>>)

\* the default impl of visit_lifetime_bound, which calls visit_lifetime_ref
visit_lifetime_bound_default(v, lifetime) == visit_lifetime_ref(v, lifetime)

visit_lifetime_bound(v, lifetime) == v

---------------------------------------------------------------------------
(* syntax::visit::walk_ty driving the visitor: a reference hands its       *)
(* optional lifetime to visit_opt_lifetime_ref and descends, a tuple       *)
(* descends into its elements, a path descends into its type parameters    *)
(* and hands its lifetime parameters to visit_lifetime_ref, a lifetime     *)
(* bound goes to visit_lifetime_bound.                                     *)

RECURSIVE VisitLifetimeRefs(_, _)
VisitLifetimeRefs(v, lts) ==
    IF lts = <<>> THEN v
    ELSE VisitLifetimeRefs(visit_lifetime_ref(v, Head(lts)), Tail(lts))

RECURSIVE VisitLifetimeBounds(_, _)
VisitLifetimeBounds(v, lts) ==
    IF lts = <<>> THEN v
    ELSE VisitLifetimeBounds(visit_lifetime_bound(v, Head(lts)), Tail(lts))

RECURSIVE walk_ty(_, _)
RECURSIVE WalkTys(_, _)
walk_ty(v, ty) ==
    CASE ty.node = "TyRptr" ->
            walk_ty(visit_opt_lifetime_ref(v, ty.lt), ty.tys[1])
      [] ty.node = "TyTup" -> WalkTys(v, ty.tys)
      [] ty.node = "TyPath" -> VisitLifetimeRefs(WalkTys(v, ty.tys), ty.lts)
      [] ty.node = "TyObjectSum" ->
            VisitLifetimeBounds(walk_ty(v, ty.tys[1]), ty.lts)
      [] OTHER -> v

WalkTys(v, tys) ==
    IF tys = <<>> THEN v ELSE WalkTys(walk_ty(v, Head(tys)), Tail(tys))

---------------------------------------------------------------------------
(* could_use_elision, the rules applied to input_lts and output_lts *)

\* the length of the vector, nothing collapsed
unique_lifetimes_no_dedup(lts) == Len(lts)

unique_lifetimes(lts) == Cardinality({lts[i] : i \in DOMAIN lts})

\* the match without the guard `if n1 == n2`
MatchSingle_no_guard(i, o) ==
    CASE i.tag = "Named" /\ o.tag = "Named" -> TRUE
      [] i.tag = "Named" /\ o.tag = "Unnamed" -> TRUE
      [] i.tag = "Unnamed" /\ o.tag = "Named" -> TRUE
      [] OTHER -> FALSE

\* the match on (&input_lts[0], &output_lts[0])
MatchSingle(i, o) ==
    CASE i.tag = "Named" /\ o.tag = "Named" /\ i.name = o.name -> TRUE
      [] i.tag = "Named" /\ o.tag = "Unnamed" -> TRUE
      [] i.tag = "Unnamed" /\ o.tag = "Named" -> TRUE
      [] OTHER -> FALSE

\* the branch without `input_lts.len() == 1 && input_lts[0] == Unnamed`
NoOutputRule_no_unnamed_check(input_lts) ==
    IF Len(input_lts) = unique_lifetimes(input_lts) THEN TRUE ELSE FALSE

\* the branch `else if output_lts.is_empty()`
NoOutputRule(input_lts) ==
    IF Len(input_lts) = 1 /\ input_lts[1] = Unnamed
    THEN FALSE
    ELSE IF Len(input_lts) = unique_lifetimes(input_lts)
         THEN TRUE
         ELSE FALSE

\* the branch without `if unique_lifetimes(&output_lts) > 1 { return false; }`
OutputRule_no_unique_check(input_lts, output_lts) ==
    IF Len(input_lts) = 1
    THEN MatchSingle(input_lts[1], output_lts[1])
    ELSE FALSE

\* the last `else` branch
OutputRule(input_lts, output_lts) ==
    IF unique_lifetimes(output_lts) > 1
    THEN FALSE
    ELSE IF Len(input_lts) = 1
         THEN MatchSingle(input_lts[1], output_lts[1])
         ELSE FALSE

\* the rules without `if input_lts.is_empty() { return false; }`
ElisionRules_no_empty_check(input_lts, output_lts) ==
    IF output_lts = <<>>
    THEN NoOutputRule(input_lts)
    ELSE OutputRule(input_lts, output_lts)

ElisionRules(input_lts, output_lts) ==
    IF input_lts = <<>>
    THEN FALSE
    ELSE IF output_lts = <<>>
         THEN NoOutputRule(input_lts)
         ELSE OutputRule(input_lts, output_lts)

---------------------------------------------------------------------------
(* The signatures check_fn is run on. *)

ItemFn == [fk |-> "FkItemFn", self |-> "SelfStatic", lt |-> <<>>, ty |-> TyInfer]
FnBlock == [fk |-> "FkFnBlock", self |-> "SelfStatic", lt |-> <<>>, ty |-> TyInfer]
Method(self, lt, ty) == [fk |-> "FkMethod", self |-> self, lt |-> lt, ty |-> ty]

DefaultReturn == [ret |-> "DefaultReturn", ty |-> TyInfer]
NoReturn == [ret |-> "NoReturn", ty |-> TyInfer]
Return(ty) == [ret |-> "Return", ty |-> ty]

\* a method with a receiver has a "self" argument of type TyInfer in func.inputs
HasSelfArg(k) == k.fk = "FkMethod" /\ k.self # "SelfStatic"
FnInputs(k, params) == IF HasSelfArg(k) THEN <<TyInfer>> \o params ELSE params

Sig(m, sp, k, params, out) ==
    [macro |-> m, span |-> sp, kind |-> k, inputs |-> FnInputs(k, params),
     output |-> out]

\* the types of the signatures of Spec
SigTys ==
    { i32,
      TyRptr(<<>>, i32),
      TyRptr(<<"'a">>, i32),
      TyRptr(<<"'static">>, i32),
      TyPath(<<TyRptr(<<"'b">>, i32)>>, <<"'a">>),
      TyTup(<<TyRptr(<<"'a">>, i32), TyRptr(<<>>, i32)>>) }

Kinds ==
    {ItemFn, FnBlock, Method("SelfStatic", <<>>, TyInfer),
     Method("SelfValue", <<>>, TyInfer)}
    \cup {Method("SelfRegion", lt, TyInfer) : lt \in OptLifetimes}
    \cup {Method("SelfExplicit", <<>>, ty) : ty \in SigTys}

Sigs ==
    {Sig(m, sp, k, params, out) :
        m \in BOOLEAN, sp \in Spans, k \in Kinds,
        params \in SeqsUpTo(SigTys, MaxArgs),
        out \in {DefaultReturn, NoReturn} \cup {Return(ty) : ty \in SigTys}}

\* a few signatures that take every path through check_fn
SmallSigs ==
    {Sig(m, "sp1", k, params, out) :
        m \in BOOLEAN,
        k \in {ItemFn, Method("SelfRegion", <<"'a">>, TyInfer)},
        params \in {<<>>, <<TyRptr(<<"'b">>, i32)>>},
        out \in {DefaultReturn}}

\* signatures whose parameters and return type are plain references: one
\* for every pair of descriptor sequences within the bounds
Refs(lts) == [i \in DOMAIN lts |-> TyRptr(lts[i], i32)]
FlatReturns(lts) ==
    IF lts = <<>> THEN {DefaultReturn, Return(i32)}
    ELSE IF Len(lts) = 1 THEN {Return(TyRptr(lts[1], i32))}
    ELSE {Return(TyTup(Refs(lts)))}
FlatSigs ==
    {Sig(FALSE, "sp1", ItemFn, Refs(ins), out) :
        ins \in SeqsUpTo(OptLifetimes, MaxInRefs),
        out \in UNION {FlatReturns(outs) :
                          outs \in SeqsUpTo(OptLifetimes, MaxOutRefs)}}

\* type expressions nested up to a depth
WalkOptLifetimes == {<<>>, <<"'a">>, <<"'static">>}
WalkLifetimes == {"'a", "'static"}
RECURSIVE TysOfDepth(_)
TysOfDepth(d) ==
    IF d = 0 THEN {i32}
    ELSE LET S == TysOfDepth(d - 1) IN
         S \cup {TyRptr(lt, t) : lt \in WalkOptLifetimes, t \in S}
           \cup {TyTup(<<t1, t2>>) : t1 \in S, t2 \in S}
           \cup {TyPath(tys, lts) : tys \in SeqsUpTo(S, 1),
                                    lts \in SeqsUpTo(WalkLifetimes, 1)}
           \cup {TyObjectSum(t, <<lt>>) : t \in S, lt \in WalkLifetimes}
DeepSigs ==
    {Sig(FALSE, "sp1", ItemFn, <<>>, Return(ty)) : ty \in TysOfDepth(MaxDepth)}

---------------------------------------------------------------------------
(* The run of check_fn. *)

Start(sig) ==
    /\ pc = "check_fn"
    /\ external_macro = sig.macro
    /\ span = sig.span
    /\ kind = sig.kind
    /\ inputs = sig.inputs
    /\ output = sig.output
    /\ arg_idx = 1
    /\ input_visitor = <<>>
    /\ output_visitor = <<>>
    /\ verdict = <<>>
    /\ lints = <<>>

Init == \E sig \in Sigs : Start(sig)
InitDecide == \E sig \in FlatSigs \cup SmallSigs : Start(sig)
InitWalk == \E sig \in DeepSigs \cup SmallSigs : Start(sig)

\* check_fn without the macro filter
check_fn_no_macro_filter ==
    /\ pc = "check_fn"
    /\ pc' = "self"
    /\ input_visitor' = <<>>
    /\ output_visitor' = <<>>
    /\ UNCHANGED <<external_macro, span, kind, inputs, output, arg_idx,
                   verdict, lints>>

\* check_fn: `if in_external_macro(cx, span) { return; }`, else the call of
\* could_use_elision, which creates the two visitors
check_fn ==
    /\ pc = "check_fn"
    /\ IF external_macro
       THEN pc' = "done" /\ UNCHANGED <<input_visitor, output_visitor>>
       ELSE /\ pc' = "self"
            /\ input_visitor' = <<>>
            /\ output_visitor' = <<>>
    /\ UNCHANGED <<external_macro, span, kind, inputs, output, arg_idx,
                   verdict, lints>>

\* `if let FnKind::FkMethod(_, sig, _) = kind { match sig.explicit_self.node ... }`
ExtractSelf ==
    /\ pc = "self"
    /\ input_visitor' =
         IF kind.fk = "FkMethod"
         THEN CASE kind.self = "SelfRegion" -> record(input_visitor, kind.lt)
                [] kind.self = "SelfExplicit" -> walk_ty(input_visitor, kind.ty)
                [] OTHER -> input_visitor
         ELSE input_visitor
    /\ arg_idx' = 1
    /\ pc' = "args"
    /\ UNCHANGED <<external_macro, span, kind, inputs, output, output_visitor,
                   verdict, lints>>

\* `for arg in &func.inputs { walk_ty(&mut input_visitor, &*arg.ty); }`
ExtractArg ==
    /\ pc = "args"
    /\ IF arg_idx <= Len(inputs)
       THEN /\ input_visitor' = walk_ty(input_visitor, inputs[arg_idx])
            /\ arg_idx' = arg_idx + 1
            /\ pc' = "args"
       ELSE /\ pc' = "output"
            /\ UNCHANGED <<input_visitor, arg_idx>>
    /\ UNCHANGED <<external_macro, span, kind, inputs, output, output_visitor,
                   verdict, lints>>

\* `if let Return(ref ty) = func.output { walk_ty(&mut output_visitor, ty); }`
ExtractOutput ==
    /\ pc = "output"
    /\ output_visitor' =
         IF output.ret = "Return"
         THEN walk_ty(output_visitor, output.ty)
         ELSE output_visitor
    /\ pc' = "rules"
    /\ UNCHANGED <<external_macro, span, kind, inputs, output, arg_idx,
                   input_visitor, verdict, lints>>

\* the rest of could_use_elision: into_vec twice, the rules, the return
could_use_elision ==
    /\ pc = "rules"
    /\ verdict' = <<ElisionRules(into_vec(input_visitor), into_vec(output_visitor))>>
    /\ pc' = "returned"
    /\ UNCHANGED <<external_macro, span, kind, inputs, output, arg_idx,
                   input_visitor, output_visitor, lints>>

\* back in check_fn: `if could_use_elision(kind, decl) { span_lint(...) }`
span_lint ==
    /\ pc = "returned"
    /\ lints' = IF verdict[1]
                THEN Append(lints, [lint |-> "NEEDLESS_LIFETIMES", span |-> span])
                ELSE lints
    /\ pc' = "done"
    /\ UNCHANGED <<external_macro, span, kind, inputs, output, arg_idx,
                   input_visitor, output_visitor, verdict>>

Next ==
    \/ check_fn
    \/ ExtractSelf
    \/ ExtractArg
    \/ ExtractOutput
    \/ could_use_elision
    \/ span_lint

Spec == Init /\ [][Next]_vars
SpecDecide == InitDecide /\ [][Next]_vars
SpecWalk == InitWalk /\ [][Next]_vars

---------------------------------------------------------------------------
(* What the properties below speak of. *)

\* could_use_elision has returned
Returned == verdict # <<>>
Result == verdict[1]
\* the extraction of the input side is over
InputsExtracted ==
    pc \in {"output", "rules", "returned"} \/ (pc = "done" /\ ~external_macro)
\* the extraction of the output side is over
OutputExtracted ==
    pc \in {"rules", "returned"} \/ (pc = "done" /\ ~external_macro)

Range(s) == {s[i] : i \in DOMAIN s}
PairwiseDistinct(s) == \A i, j \in DOMAIN s : i # j => s[i] # s[j]
AllEqual(s) == \A i, j \in DOMAIN s : s[i] = s[j]

\* the descriptor of an optional lifetime annotation
Desc(lifetime) ==
    IF lifetime = <<>> THEN Unnamed
    ELSE IF lifetime[1] = "'static" THEN Static
    ELSE Named(lifetime[1])

RECURSIVE Flatten(_)
Flatten(ss) == IF ss = <<>> THEN <<>> ELSE Head(ss) \o Flatten(Tail(ss))

\* the descriptors of the references of a type expression, in pre-order
RECURSIVE RefDescs(_)
RefDescs(ty) ==
    (IF ty.node = "TyRptr" THEN <<Desc(ty.lt)>> ELSE <<>>)
    \o Flatten([i \in DOMAIN ty.tys |-> RefDescs(ty.tys[i])])

\* the same, each generic path adding the descriptors of its lifetime
\* parameters after those of its type parameters
RECURSIVE RefAndPathDescs(_)
RefAndPathDescs(ty) ==
    (IF ty.node = "TyRptr" THEN <<Desc(ty.lt)>> ELSE <<>>)
    \o Flatten([i \in DOMAIN ty.tys |-> RefAndPathDescs(ty.tys[i])])
    \o (IF ty.node = "TyPath"
        THEN [i \in DOMAIN ty.lts |-> Desc(<<ty.lts[i]>>)]
        ELSE <<>>)

Perms(n) == {f \in [1..n -> 1..n] : \A i, j \in 1..n : i # j => f[i] # f[j]}
Permuted(s, f) == [i \in DOMAIN s |-> s[f[i]]]

---------------------------------------------------------------------------
(* C1: with a non-empty input sequence and an empty output sequence, the   *)
(* verdict is true exactly when the input sequence is not [Unnamed] and    *)
(* its elements are pairwise distinct; two equal inputs make it false.     *)
C1_NoOutputVerdict ==
    (Returned /\ input_visitor # <<>> /\ output_visitor = <<>>) =>
        /\ Result <=> (input_visitor # <<Unnamed>> /\ PairwiseDistinct(input_visitor))
        /\ ~PairwiseDistinct(input_visitor) => ~Result

C1_Witness ==
    /\ Returned /\ Result
    /\ output_visitor = <<>>
    /\ Len(input_visitor) = 3

---------------------------------------------------------------------------
(* C2: with a non-empty output sequence of uniqueness count at most 1, the *)
(* verdict is true exactly when there is one input element and the pair    *)
(* (input, output region) is (Named a, Named a), (Named, Unnamed) or       *)
(* (Unnamed, Named); it is false for differing names, for two Unnamed, for *)
(* Static on either side and for two or more inputs.                       *)
C2_ElidablePairs ==
    {<<Named(n), Named(n)>> : n \in Names}
    \cup {<<Named(n), Unnamed>> : n \in Names}
    \cup {<<Unnamed, Named(n)>> : n \in Names}

C2_OutputVerdict ==
    (Returned /\ output_visitor # <<>> /\ AllEqual(output_visitor)) =>
        /\ Result <=> (/\ Len(input_visitor) = 1
                       /\ <<input_visitor[1], output_visitor[1]>> \in C2_ElidablePairs)
        /\ Len(input_visitor) >= 2 => ~Result
        /\ (Static \in Range(input_visitor) \/ output_visitor[1] = Static) => ~Result
        /\ (input_visitor = <<Unnamed>> /\ output_visitor[1] = Unnamed) => ~Result
        /\ (/\ Len(input_visitor) = 1
            /\ input_visitor[1].tag = "Named"
            /\ output_visitor[1].tag = "Named"
            /\ input_visitor[1].name # output_visitor[1].name) => ~Result

C2_Witness ==
    /\ Returned /\ Result
    /\ input_visitor = <<Named("'a")>>
    /\ output_visitor = <<Named("'a"), Named("'a")>>

---------------------------------------------------------------------------
(* C3: when the output sequence holds two distinct descriptors, the        *)
(* verdict is false whatever the input sequence.                           *)
C3_DistinctOutputsNeverFlagged ==
    (Returned /\ ~AllEqual(output_visitor)) => ~Result

C3_Witness ==
    /\ Returned /\ ~Result
    /\ input_visitor = <<Named("'a")>>
    /\ output_visitor = <<Named("'a"), Named("'b")>>

---------------------------------------------------------------------------
(* C4: when the input sequence is empty, the verdict is false whatever the *)
(* output sequence.                                                        *)
C4_NoInputsNeverFlagged ==
    (Returned /\ input_visitor = <<>>) => ~Result

C4_Witness ==
    /\ Returned /\ ~Result
    /\ input_visitor = <<>>
    /\ Len(output_visitor) = 2

---------------------------------------------------------------------------
(* C5: fn f(x: &i32, y: &i32) -> i32. *)
C5_Signature ==
    /\ kind = ItemFn
    /\ inputs = <<TyRptr(<<>>, i32), TyRptr(<<>>, i32)>>
    /\ output = Return(i32)

(* C5 as stated: the input sequence is [Unnamed, Unnamed], the output      *)
(* sequence is empty, the uniqueness count of the input sequence is 2 and  *)
(* equals its length, and the verdict is true.                             *)
C5_Original ==
    (C5_Signature /\ Returned) =>
        /\ input_visitor = <<Unnamed, Unnamed>>
        /\ output_visitor = <<>>
        /\ unique_lifetimes(input_visitor) = 2
        /\ unique_lifetimes(input_visitor) = Len(input_visitor)
        /\ Result

(* C5, amended: the input sequence is [Unnamed, Unnamed], the output       *)
(* sequence is empty, the uniqueness count of the input sequence is 1,     *)
(* which is not its length 2, and the verdict is false.                    *)
C5_TwoUnnamedNotFlagged ==
    (C5_Signature /\ Returned) =>
        /\ input_visitor = <<Unnamed, Unnamed>>
        /\ output_visitor = <<>>
        /\ unique_lifetimes(input_visitor) = 1
        /\ Len(input_visitor) = 2
        /\ ~Result

C5_Witness == C5_Signature /\ pc = "done" /\ Returned

---------------------------------------------------------------------------
(* C6: a run of check_fn on a definition from macro-expanded code never    *)
(* evaluates could_use_elision and emits no diagnostic; any other run      *)
(* emits exactly one diagnostic, at the function's span, when the verdict  *)
(* is true, and none when it is false.                                     *)
C6_MacroSkippedElseOneLint ==
    /\ external_macro =>
          /\ pc \in {"check_fn", "done"}
          /\ ~Returned
          /\ input_visitor = <<>> /\ output_visitor = <<>>
          /\ lints = <<>>
    /\ pc # "done" => lints = <<>>
    /\ (pc = "done" /\ ~external_macro) =>
          /\ Returned
          /\ lints = IF Result
                     THEN <<[lint |-> "NEEDLESS_LIFETIMES", span |-> span]>>
                     ELSE <<>>

C6_Witness ==
    /\ pc = "done" /\ ~external_macro
    /\ Returned /\ Result
    /\ Len(lints) = 1

---------------------------------------------------------------------------
(* C7 as stated: walking a type expression yields exactly one descriptor   *)
(* per reference type, in pre-order, and no other descriptor; a lifetime   *)
(* bound and a lifetime parameter of a generic path contribute none.       *)
C7_Original ==
    (OutputExtracted /\ output.ret = "Return") =>
        output_visitor = RefDescs(output.ty)

(* C7, amended: walking a type expression yields one descriptor per        *)
(* reference type and one per lifetime parameter of a generic path, in     *)
(* encounter order (a path's lifetime parameters after its type            *)
(* parameters), and no other descriptor; a lifetime bound contributes      *)
(* none.                                                                   *)
C7_RefsAndPathLifetimes ==
    (OutputExtracted /\ output.ret = "Return") =>
        output_visitor = RefAndPathDescs(output.ty)

C7_Witness ==
    /\ pc = "done"
    /\ output.ret = "Return"
    /\ output.ty.node = "TyTup"
    /\ output.ty.tys[1].node = "TyRptr"
    /\ output.ty.tys[2].node = "TyPath"
    /\ output.ty.tys[2].lts # <<>>
    /\ Len(output_visitor) = 2

---------------------------------------------------------------------------
(* C8: a by-reference receiver contributes exactly one descriptor, placed  *)
(* before every descriptor of the ordinary parameters: Unnamed without an  *)
(* annotation, Static for 'static, Named(x) for any other x. A by-value    *)
(* receiver contributes none, an explicitly typed receiver those found by  *)
(* descending into its type.                                               *)
C8_OrdinaryParams == IF HasSelfArg(kind) THEN Tail(inputs) ELSE inputs

C8_ParamDescs ==
    Flatten([i \in DOMAIN C8_OrdinaryParams |-> walk_ty(<<>>, C8_OrdinaryParams[i])])

C8_ReceiverDescs ==
    IF kind.fk # "FkMethod" THEN <<>>
    ELSE CASE kind.self = "SelfRegion" -> <<Desc(kind.lt)>>
           [] kind.self = "SelfExplicit" -> walk_ty(<<>>, kind.ty)
           [] OTHER -> <<>>

C8_ReceiverFirst ==
    InputsExtracted => input_visitor = C8_ReceiverDescs \o C8_ParamDescs

C8_Witness ==
    /\ pc = "done"
    /\ kind.fk = "FkMethod" /\ kind.self = "SelfRegion"
    /\ kind.lt = <<"'static">>
    /\ Len(inputs) = 3
    /\ Len(input_visitor) >= 3
    /\ input_visitor[1] = Static
    /\ input_visitor[2] # Static

---------------------------------------------------------------------------
(* C9: whenever the verdict is true, some descriptor of the input or the   *)
(* output sequence is not Unnamed.                                         *)
C9_FlaggedHasExplicitLifetime ==
    (Returned /\ Result) =>
        \E d \in Range(input_visitor) \cup Range(output_visitor) : d # Unnamed

C9_Witness ==
    /\ Returned /\ Result
    /\ Unnamed \in Range(input_visitor)
    /\ output_visitor = <<>>

---------------------------------------------------------------------------
(* C10: the verdict is the same for every permutation of the input         *)
(* sequence and every permutation of the output sequence.                  *)
C10_OrderIndependent ==
    Returned =>
        \A f \in Perms(Len(input_visitor)), g \in Perms(Len(output_visitor)) :
            ElisionRules(Permuted(input_visitor, f), Permuted(output_visitor, g))
                = Result

C10_Witness ==
    /\ Returned /\ ~Result
    /\ Len(input_visitor) = 1
    /\ Len(output_visitor) = 2
    /\ output_visitor[1] # output_visitor[2]
    /\ MatchSingle(input_visitor[1], output_visitor[1])
    /\ ~MatchSingle(input_visitor[1], output_visitor[2])

===========================================================================
